---------------------------- MODULE Spec2Model ----------------------------
(***************************************************************************)
(* ESP32-SemaphoreGuard: the scope-bound guards SemaphoreGuard and         *)
(* RecursiveSemaphoreGuard over FreeRTOS semaphores.                       *)
(*                                                                         *)
(* A guard is a stack object of its caller (a task, or the interrupt       *)
(* handler): stack[c] holds the guards of caller c that exist, innermost   *)
(* scope last, so guards are destroyed in the reverse order of their       *)
(* construction.  A constructor sets m_handle and m_taken, refuses a null  *)
(* handle and interrupt context, and otherwise calls the kernel take; the  *)
(* destructor gives the semaphore back when m_taken is set.  The kernel    *)
(* objects are a binary semaphore, a counting semaphore and a recursive    *)
(* mutex, each with the count of free units, the holding task and the      *)
(* recursive call count the FreeRTOS queue keeps.                          *)
(***************************************************************************)
EXTENDS Integers, FiniteSets, Sequences, TLC

----------------------------------------------------------------------------
(* Bounds *)

\* number of guard objects that exist at the same time
MaxGuards == 3

\* largest finite timeout, in ticks, a constructor is given
MaxTimeout == 1

\* capacity and initial count of the counting semaphore
\* (xSemaphoreCreateCounting(3, 3) in the tests)
CountingMax == 2

----------------------------------------------------------------------------
(* Program constants *)

\* mutant: the one-argument constructors wait with the largest finite timeout
portMAX_DELAY_finite == MaxTimeout

\* the unbounded wait of the one-argument constructors: 0xffffffff ticks in
\* FreeRTOS, here the value above every finite timeout; a wait of
\* portMAX_DELAY never expires (INCLUDE_vTaskSuspend is set on the ESP32)
portMAX_DELAY == MaxTimeout + 1

\* mutant: the give waits without bound for room in a full queue
semGIVE_BLOCK_TIME_wait == portMAX_DELAY

\* ticks xSemaphoreGive and xSemaphoreGiveRecursive wait for room in the queue
semGIVE_BLOCK_TIME == 0

nullptr == "nullptr"

\* m_file of a guard built by a constructor that is given no file
NoFile == "-"

binarySem == "binarySem"

countingSem == "countingSem"

recursiveMutex == "recursiveMutex"

\* the kernel objects of the application
Handles == {binarySem, countingSem, recursiveMutex}

\* handles of the non-recursive kind, taken with xSemaphoreTake
PlainHandles == {binarySem, countingSem}

\* the recursive mutex of the example's SafeCounter
counterMutex == "SafeCounter::mutex"

\* handles of the recursive kind, taken with xSemaphoreTakeRecursive
RecursiveHandles == {recursiveMutex, counterMutex}

Tasks == {"Task1", "Task2"}

ISR == "ISR"

Callers == Tasks \cup {ISR}

NoTask == "none"

\* the finite timeouts given to the two-argument constructors (given
\* portMAX_DELAY they run the code of the one-argument constructors)
Timeouts == 0..MaxTimeout

\* queue length of a semaphore: 1 for binary and mutex, the capacity for counting
uxLength(h) == IF h = countingSem THEN CountingMax ELSE 1

VARIABLES
    sem,      \* kernel object of each handle: [count, holder, depth]
    stack,    \* caller -> its guards, innermost last; a guard is a record
              \*   cls       "SemaphoreGuard" | "RecursiveSemaphoreGuard"
              \*   m_handle  the handle given at construction
              \*   m_taken   whether the take returned pdTRUE
              \*   pc        "blocked" (inside the kernel take) | "live"
              \*   ticksLeft ticks the blocked take may still wait
              \*   nTake     kernel take calls the constructor made
              \*   xReturn   what its take returned: "pdTRUE" | "pdFALSE",
              \*             "none" while no take has returned
              \*   m_file    "file" if a debug constructor set it, else NoFile
              \*   log       severities of the diagnostics its constructor has
              \*             emitted: "E" error, "W" warn, "D" debug
    balance,  \* handle -> successful takes minus gives, both made by guards
    lastDtor, \* what the last step did, if it was a destructor: "released" (it
              \*   gave the semaphore back), "dropped" (its take had failed),
              \*   "discarded" (its constructor had refused); else "-"
    ret,      \* what the last step returned, if in it a caller asked its
              \*   innermost guard: [caller, hasLock, isValid, getHandle];
              \*   else NoReturn
    SEMAPHORE_GUARD_DEBUG,
              \* whether the build defines SEMAPHORE_GUARD_DEBUG: the guards
              \*   are then constructed by the constructors that take the
              \*   file and line of the call (the SEMAPHORE_GUARD macros)
    deleted,  \* the handles whose kernel object the application has deleted
              \*   with vSemaphoreDelete; sem[h] is then the freed memory
    pc,       \* example application: task -> the line it has reached
    value     \* example application: SafeCounter::value

\* the state of the example application
example == <<pc, value>>

vars == <<sem, stack, balance, lastDtor, ret, SEMAPHORE_GUARD_DEBUG, deleted,
          pc, value>>

\* the last step called no accessor
NoReturn == [caller |-> "-", hasLock |-> FALSE, isValid |-> FALSE, getHandle |-> "-"]

----------------------------------------------------------------------------
(* The kernel contract the guards call into *)

\* xPortInIsrContext(): whether the caller is an interrupt handler
xPortInIsrContext(c) == c = ISR

\* whether a take of h by caller c succeeds at once
Available(s, h, c) ==
    /\ h \in DOMAIN s
    /\ IF h \in RecursiveHandles
       THEN s[h].holder = c \/ s[h].count > 0
       ELSE s[h].count > 0

\* xSemaphoreTake succeeding: one unit leaves the queue
xSemaphoreTake(s, h) == [s EXCEPT ![h].count = @ - 1]

\* xSemaphoreGive: one unit enters the queue, unless the queue is full
xSemaphoreGive(s, h) ==
    IF h \in DOMAIN s /\ s[h].count < uxLength(h)
    THEN [s EXCEPT ![h].count = @ + 1]
    ELSE s

\* xSemaphoreTakeRecursive succeeding: the holder re-enters, or the free mutex is taken
xSemaphoreTakeRecursive(s, h, c) ==
    IF s[h].holder = c
    THEN [s EXCEPT ![h].depth = @ + 1]
    ELSE [s EXCEPT ![h] = [count |-> 0, holder |-> c, depth |-> 1]]

\* xSemaphoreGiveRecursive: only the holder gives; the mutex is freed at depth 0
xSemaphoreGiveRecursive(s, h, c) ==
    IF h \notin DOMAIN s \/ s[h].holder # c THEN s
    ELSE IF s[h].depth > 1 THEN [s EXCEPT ![h].depth = @ - 1]
    ELSE [s EXCEPT ![h] = [count |-> 1, holder |-> NoTask, depth |-> 0]]

----------------------------------------------------------------------------
(* Initial state: the semaphores as the application creates them *)

\* the kernel objects with b units in the binary semaphore
SemInit(b) ==
    [h \in Handles |->
        [count  |-> IF h = binarySem THEN b ELSE uxLength(h),
         holder |-> NoTask,
         depth  |-> 0]]

\* no guard exists
NoGuards ==
    /\ stack = [c \in Callers |-> << >>]
    /\ balance = [h \in Handles \cup {nullptr} |-> 0]
    /\ lastDtor = "-"
    /\ ret = NoReturn
    /\ deleted = {}
    /\ pc = [c \in Callers |-> "-"]
    /\ value = 0

\* xSemaphoreCreateBinary() creates the binary semaphore empty; the build
\* does not define SEMAPHORE_GUARD_DEBUG
Init == sem = SemInit(0) /\ NoGuards /\ SEMAPHORE_GUARD_DEBUG = FALSE

\* after setUp: the binary semaphore given once, so that it starts available
InitGiven == sem = SemInit(1) /\ NoGuards /\ SEMAPHORE_GUARD_DEBUG = FALSE

\* as InitGiven, in the build without or with SEMAPHORE_GUARD_DEBUG
InitBuilds == sem = SemInit(1) /\ NoGuards /\ SEMAPHORE_GUARD_DEBUG \in BOOLEAN

----------------------------------------------------------------------------
(* The guards *)

\* the innermost guard of caller c
Top(c) == stack[c][Len(stack[c])]

\* a caller runs unless its innermost guard is blocked inside the kernel take
CanRun(c) == IF stack[c] = << >> THEN TRUE ELSE Top(c).pc = "live"

RECURSIVE SumLen(_, _)
SumLen(f, S) ==
    IF S = {} THEN 0
    ELSE LET c == CHOOSE x \in S : TRUE IN Len(f[c]) + SumLen(f, S \ {c})

\* number of guards that exist
NumGuards == SumLen(stack, Callers)

\* mutant: hasLock() read from the semaphore's count instead of the flag
hasLockFromCount(e) == e.m_handle \in Handles /\ sem[e.m_handle].count = 0

\* hasLock(): the acquired flag
hasLock(e) == e.m_taken

\* mutant: isValid() reports the acquired flag
isValidIfTaken(e) == e.m_taken

\* isValid(): whether the handle is non-null
isValid(e) == e.m_handle # nullptr

\* getHandle(): the handle given at construction
getHandle(e) == e.m_handle

\* caller c calls hasLock(), isValid() and getHandle() of its innermost
\* guard: const member functions, they return a value and write nothing
Accessors(c) ==
    /\ stack[c] # << >>
    /\ CanRun(c)
    /\ ret' = [caller |-> c,
               hasLock |-> hasLock(Top(c)),
               isValid |-> isValid(Top(c)),
               getHandle |-> getHandle(Top(c))]
    /\ UNCHANGED <<SEMAPHORE_GUARD_DEBUG, deleted>>
    /\ lastDtor' = "-"
    /\ UNCHANGED <<sem, stack, balance>>
    /\ UNCHANGED example

\* mutant: the null check left out
RefusesIsrOnly(h, c) == xPortInIsrContext(c)

\* mutant: the interrupt-context check left out
RefusesNullOnly(h, c) == h = nullptr

\* the constructors' early returns: null handle, or interrupt context
Refuses(h, c) == h = nullptr \/ xPortInIsrContext(c)

\* mutant: m_taken set whatever the take returned
TakenFlagAlways(result) == TRUE

\* mutant: m_taken never set
TakenFlagNever(result) == FALSE

\* mutant: the comparison with pdTRUE inverted
TakenFlagNegated(result) == ~result

\* m_taken = (xSemaphoreTake(...) == pdTRUE)
TakenFlag(result) == result

\* mutant: the destructor gives without looking at m_taken
ReleasesUnconditionally(e) == e.m_handle # nullptr

\* the destructor's condition for giving the semaphore back
Releases(e) == e.m_taken /\ e.m_handle # nullptr

\* mutant: the constructor only looks at the semaphore, it takes no unit
SemaphoreGuard_take_peek(s, h, c) == s

\* SemaphoreGuard: the take of the constructors, when it succeeds
SemaphoreGuard_take(s, h, c) == xSemaphoreTake(s, h)

\* mutant: the destructor gives nothing back
SemaphoreGuard_give_nothing(s, h, c) == s

\* SemaphoreGuard: the give of the destructor
SemaphoreGuard_give(s, h, c) == xSemaphoreGive(s, h)

\* mutant: the constructor calls the non-recursive take
RecursiveSemaphoreGuard_take_plain(s, h, c) == xSemaphoreTake(s, h)

\* RecursiveSemaphoreGuard: the take of the constructors, when it succeeds
RecursiveSemaphoreGuard_take(s, h, c) == xSemaphoreTakeRecursive(s, h, c)

\* mutant: the destructor calls the non-recursive give
RecursiveSemaphoreGuard_give_plain(s, h, c) == xSemaphoreGive(s, h)

\* RecursiveSemaphoreGuard: the give of the destructor
RecursiveSemaphoreGuard_give(s, h, c) == xSemaphoreGiveRecursive(s, h, c)

\* the take a guard of class k calls
KernelTake(k, s, h, c) ==
    IF k = "RecursiveSemaphoreGuard"
    THEN RecursiveSemaphoreGuard_take(s, h, c)
    ELSE SemaphoreGuard_take(s, h, c)

\* the give a guard of class k calls
KernelGive(k, s, h, c) ==
    IF k = "RecursiveSemaphoreGuard"
    THEN RecursiveSemaphoreGuard_give(s, h, c)
    ELSE SemaphoreGuard_give(s, h, c)

\* whether the give of a guard of class k returns without suspending the
\* caller: it waits up to semGIVE_BLOCK_TIME ticks if it has to put a unit
\* into a full queue (a recursive give puts one only when the holder's last
\* hold ends, and returns pdFAIL at once to a caller that is not the holder)
KernelGiveReturns(k, s, h, c) ==
    \/ semGIVE_BLOCK_TIME = 0
    \/ s[h].count < uxLength(h)
    \/ k = "RecursiveSemaphoreGuard" /\ ~(s[h].holder = c /\ s[h].depth = 1)

\* the guard object as the constructor leaves it
NewGuard(k, h, taken, at, ticks, calls, res) ==
    [cls |-> k, m_handle |-> h, m_taken |-> taken, pc |-> at,
     ticksLeft |-> ticks, nTake |-> calls, xReturn |-> res,
     m_file |-> NoFile, log |-> {}]

\* mutant: the timeout is reported at error severity
TimeoutLog_error == {"E"}

\* SEMG_LOG_W("Failed to acquire semaphore within timeout ..."): warn
TimeoutLog == {"W"}

\* the diagnostics a constructor emits on its way through the body; only
\* the debug constructors (file set) have the debug and warn lines
CtorLog(at, file) ==
    CASE at = "refused" -> {"E"}
      [] at = "attempt" -> IF file = NoFile THEN {} ELSE {"D"}
      [] at = "acquired" -> IF file = NoFile THEN {} ELSE {"D"}
      [] at = "timeout" -> IF file = NoFile THEN {} ELSE TimeoutLog

\* guard e with the file and the diagnostics of its constructor
Logged(e, file, levels) == [e EXCEPT !.m_file = file, !.log = @ \cup levels]

\* the constructor body: initialisers, the two early returns, the take; a
\* debug constructor (file set) logs the attempt before the take and the
\* outcome after it
Construct(k, c, h, timeout, file) ==
    /\ CanRun(c)
    /\ IF Refuses(h, c)
       THEN /\ stack' = [stack EXCEPT ![c] =
                    Append(@, Logged(NewGuard(k, h, FALSE, "live", 0, 0, "none"),
                                     file, CtorLog("refused", file)))]
            /\ lastDtor' = "-"
            /\ ret' = NoReturn
            /\ UNCHANGED <<SEMAPHORE_GUARD_DEBUG, deleted>>
            /\ UNCHANGED <<sem, balance>>
       ELSE IF Available(sem, h, c)
       THEN /\ sem' = KernelTake(k, sem, h, c)
            /\ stack' = [stack EXCEPT ![c] =
                    Append(@, Logged(NewGuard(k, h, TakenFlag(TRUE), "live", 0, 1, "pdTRUE"),
                                     file, CtorLog("attempt", file)
                                               \cup CtorLog("acquired", file)))]
            /\ balance' = [balance EXCEPT ![h] = @ + 1]
            /\ lastDtor' = "-"
            /\ ret' = NoReturn
            /\ UNCHANGED <<SEMAPHORE_GUARD_DEBUG, deleted>>
       ELSE IF timeout = 0
       THEN /\ stack' = [stack EXCEPT ![c] =
                    Append(@, Logged(NewGuard(k, h, TakenFlag(FALSE), "live", 0, 1, "pdFALSE"),
                                     file, CtorLog("attempt", file)
                                               \cup CtorLog("timeout", file)))]
            /\ lastDtor' = "-"
            /\ ret' = NoReturn
            /\ UNCHANGED <<SEMAPHORE_GUARD_DEBUG, deleted>>
            /\ UNCHANGED <<sem, balance>>
       ELSE /\ stack' = [stack EXCEPT ![c] =
                    Append(@, Logged(NewGuard(k, h, FALSE, "blocked", timeout, 1, "none"),
                                     file, CtorLog("attempt", file)))]
            /\ lastDtor' = "-"
            /\ ret' = NoReturn
            /\ UNCHANGED <<SEMAPHORE_GUARD_DEBUG, deleted>>
            /\ UNCHANGED <<sem, balance>>

\* the constructors without file and line; the SEMAPHORE_GUARD macros use
\* them in the build without SEMAPHORE_GUARD_DEBUG
GuardCtor(k, c, h, timeout) ==
    /\ ~SEMAPHORE_GUARD_DEBUG
    /\ NumGuards < MaxGuards
    /\ Construct(k, c, h, timeout, NoFile)
    /\ UNCHANGED example

\* the constructors with file and line, compiled under SEMAPHORE_GUARD_DEBUG
GuardCtorDebug(k, c, h, timeout) ==
    /\ SEMAPHORE_GUARD_DEBUG
    /\ NumGuards < MaxGuards
    /\ Construct(k, c, h, timeout, "file")
    /\ UNCHANGED example

\* SemaphoreGuard(handle): unbounded wait
SemaphoreGuard_ctor(c, h) ==
    /\ h \in PlainHandles \cup {nullptr}
    /\ GuardCtor("SemaphoreGuard", c, h, portMAX_DELAY)

\* SemaphoreGuard(handle, timeout)
SemaphoreGuard_ctor_timeout(c, h, timeout) ==
    /\ h \in PlainHandles \cup {nullptr}
    /\ GuardCtor("SemaphoreGuard", c, h, timeout)

\* RecursiveSemaphoreGuard(handle): unbounded wait
RecursiveSemaphoreGuard_ctor(c, h) ==
    /\ h \in RecursiveHandles \cup {nullptr}
    /\ GuardCtor("RecursiveSemaphoreGuard", c, h, portMAX_DELAY)

\* RecursiveSemaphoreGuard(handle, timeout)
RecursiveSemaphoreGuard_ctor_timeout(c, h, timeout) ==
    /\ h \in RecursiveHandles \cup {nullptr}
    /\ GuardCtor("RecursiveSemaphoreGuard", c, h, timeout)

\* SemaphoreGuard(handle, file, line): unbounded wait, debug build
SemaphoreGuard_ctor_debug(c, h) ==
    /\ h \in PlainHandles \cup {nullptr}
    /\ GuardCtorDebug("SemaphoreGuard", c, h, portMAX_DELAY)

\* SemaphoreGuard(handle, timeout, file, line), debug build
SemaphoreGuard_ctor_timeout_debug(c, h, timeout) ==
    /\ h \in PlainHandles \cup {nullptr}
    /\ GuardCtorDebug("SemaphoreGuard", c, h, timeout)

\* RecursiveSemaphoreGuard(handle, file, line): unbounded wait, debug build
RecursiveSemaphoreGuard_ctor_debug(c, h) ==
    /\ h \in RecursiveHandles \cup {nullptr}
    /\ GuardCtorDebug("RecursiveSemaphoreGuard", c, h, portMAX_DELAY)

\* RecursiveSemaphoreGuard(handle, timeout, file, line), debug build
RecursiveSemaphoreGuard_ctor_timeout_debug(c, h, timeout) ==
    /\ h \in RecursiveHandles \cup {nullptr}
    /\ GuardCtorDebug("RecursiveSemaphoreGuard", c, h, timeout)

\* the stacks with the innermost guard of c replaced by e
SetTop(c, e) == [stack EXCEPT ![c][Len(stack[c])] = e]

\* the blocked take returns pdTRUE: the semaphore became available
TakeSucceeds(c) ==
    /\ stack[c] # << >>
    /\ Top(c).pc = "blocked"
    /\ Available(sem, Top(c).m_handle, c)
    /\ sem' = KernelTake(Top(c).cls, sem, Top(c).m_handle, c)
    /\ stack' = SetTop(c, Logged([Top(c) EXCEPT !.m_taken = TakenFlag(TRUE),
                                                 !.pc = "live", !.ticksLeft = 0,
                                                 !.xReturn = "pdTRUE"],
                                  Top(c).m_file,
                                  CtorLog("acquired", Top(c).m_file)))
    /\ balance' = [balance EXCEPT ![Top(c).m_handle] = @ + 1]
    /\ lastDtor' = "-"
    /\ ret' = NoReturn
    /\ UNCHANGED <<SEMAPHORE_GUARD_DEBUG, deleted>>
    /\ UNCHANGED example

\* mutant: after a timeout the constructor calls the take once more
TakeTimesOut_retry(c) ==
    /\ stack[c] # << >>
    /\ Top(c).pc = "blocked"
    /\ Top(c).ticksLeft = 0
    /\ ~Available(sem, Top(c).m_handle, c)
    /\ stack' = SetTop(c, IF Top(c).nTake = 1
                          THEN [Top(c) EXCEPT !.nTake = 2]
                          ELSE [Top(c) EXCEPT !.m_taken = FALSE, !.pc = "live",
                                              !.xReturn = "pdFALSE"])
    /\ lastDtor' = "-"
    /\ ret' = NoReturn
    /\ UNCHANGED <<SEMAPHORE_GUARD_DEBUG, deleted>>
    /\ UNCHANGED <<sem, balance>>
    /\ UNCHANGED example

\* the blocked take returns pdFALSE: the timeout expired, the semaphore still unavailable
TakeTimesOut(c) ==
    /\ stack[c] # << >>
    /\ Top(c).pc = "blocked"
    /\ Top(c).ticksLeft = 0
    /\ ~Available(sem, Top(c).m_handle, c)
    /\ stack' = SetTop(c, Logged([Top(c) EXCEPT !.m_taken = TakenFlag(FALSE),
                                                 !.pc = "live", !.xReturn = "pdFALSE"],
                                  Top(c).m_file,
                                  CtorLog("timeout", Top(c).m_file)))
    /\ lastDtor' = "-"
    /\ ret' = NoReturn
    /\ UNCHANGED <<SEMAPHORE_GUARD_DEBUG, deleted>>
    /\ UNCHANGED <<sem, balance>>
    /\ UNCHANGED example

\* mutant: the timeout is not counted, the take waits as if unbounded
WaitingNever(e) == FALSE

\* whether the take of guard e waits with a bounded timeout not yet expired
Waiting(e) == e.pc = "blocked" /\ e.ticksLeft \in 1..MaxTimeout

\* a tick interrupt: every bounded wait has one tick less; portMAX_DELAY never expires
Tick ==
    /\ \E c \in DOMAIN stack : stack[c] # << >> /\ Waiting(Top(c))
    /\ stack' = [c \in DOMAIN stack |->
            [i \in DOMAIN stack[c] |->
                IF Waiting(stack[c][i])
                THEN [stack[c][i] EXCEPT !.ticksLeft = @ - 1]
                ELSE stack[c][i]]]
    /\ lastDtor' = "-"
    /\ ret' = NoReturn
    /\ UNCHANGED <<SEMAPHORE_GUARD_DEBUG, deleted>>
    /\ UNCHANGED <<sem, balance>>
    /\ UNCHANGED example

\* what the freed memory of the deleted object h may hold after a give has
\* written to it: the give is undefined behaviour, any count may result
FreedContents(s, h) == {[s[h] EXCEPT !.count = n] : n \in 0..uxLength(h)}

\* the kernel objects after the destructor's give on h: the give of the
\* kernel on an object that exists, any outcome on a deleted one
GiveOutcomes(k, s, h, c) ==
    IF h \in deleted
    THEN {[s EXCEPT ![h] = q] : q \in FreedContents(s, h)}
    ELSE {KernelGive(k, s, h, c)}

\* the destructor body, run when the innermost guard of c leaves its scope
GuardDtor(c) ==
    /\ stack[c] # << >>
    /\ Top(c).pc = "live"
    /\ IF Releases(Top(c))
       THEN /\ KernelGiveReturns(Top(c).cls, sem, Top(c).m_handle, c)
            /\ sem' \in GiveOutcomes(Top(c).cls, sem, Top(c).m_handle, c)
            /\ balance' = [balance EXCEPT ![Top(c).m_handle] = @ - 1]
            /\ lastDtor' = "released"
            /\ ret' = NoReturn
            /\ UNCHANGED <<SEMAPHORE_GUARD_DEBUG, deleted>>
       ELSE /\ lastDtor' = IF Top(c).nTake > 0 THEN "dropped" ELSE "discarded"
            /\ ret' = NoReturn
            /\ UNCHANGED <<SEMAPHORE_GUARD_DEBUG, deleted>>
            /\ UNCHANGED <<sem, balance>>
    /\ stack' = [stack EXCEPT ![c] = SubSeq(@, 1, Len(@) - 1)]

\* ~SemaphoreGuard()
SemaphoreGuard_dtor(c) ==
    /\ stack[c] # << >>
    /\ Top(c).cls = "SemaphoreGuard"
    /\ GuardDtor(c)
    /\ UNCHANGED example

\* ~RecursiveSemaphoreGuard()
RecursiveSemaphoreGuard_dtor(c) ==
    /\ stack[c] # << >>
    /\ Top(c).cls = "RecursiveSemaphoreGuard"
    /\ GuardDtor(c)
    /\ UNCHANGED example

----------------------------------------------------------------------------
(* Direct kernel calls of the application on the binary semaphore *)

\* xSemaphoreGive(binarySem) by a task, outside any guard
ExternalGive(c, h) ==
    /\ CanRun(c)
    /\ sem[h].count < uxLength(h)
    /\ sem' = xSemaphoreGive(sem, h)
    /\ lastDtor' = "-"
    /\ ret' = NoReturn
    /\ UNCHANGED <<SEMAPHORE_GUARD_DEBUG, deleted>>
    /\ UNCHANGED <<stack, balance>>
    /\ UNCHANGED example

\* xSemaphoreTake(binarySem, 0) by a task, outside any guard, returning pdTRUE
ExternalTake(c, h) ==
    /\ CanRun(c)
    /\ Available(sem, h, c)
    /\ sem' = xSemaphoreTake(sem, h)
    /\ lastDtor' = "-"
    /\ ret' = NoReturn
    /\ UNCHANGED <<SEMAPHORE_GUARD_DEBUG, deleted>>
    /\ UNCHANGED <<stack, balance>>
    /\ UNCHANGED example

\* vSemaphoreDelete(signal) where the signaling test calls it: the task has
\* constructed guard1, whose take timed out, and guard2, which holds the
\* semaphore; both are still in scope, and nothing else uses the semaphore
vSemaphoreDelete(c, h) ==
    /\ h \notin deleted
    /\ Len(stack[c]) = 2
    /\ stack[c][1].m_handle = h /\ stack[c][1].pc = "live"
    /\ stack[c][1].nTake = 1 /\ ~hasLock(stack[c][1])
    /\ stack[c][2].m_handle = h /\ stack[c][2].pc = "live"
    /\ hasLock(stack[c][2])
    /\ \A d \in Callers \ {c} :
            \A i \in 1..Len(stack[d]) : stack[d][i].m_handle # h
    /\ deleted' = deleted \cup {h}
    /\ lastDtor' = "-"
    /\ ret' = NoReturn
    /\ UNCHANGED <<sem, stack, balance, SEMAPHORE_GUARD_DEBUG>>
    /\ UNCHANGED example

----------------------------------------------------------------------------
(* The example application: examples/basic_usage.cpp.  pc[c] is the line   *)
(* of the guard construction, of the test of hasLock() or of the closing   *)
(* brace that task c executes next.                                        *)

xDataMutex == "xDataMutex"

xSerialMutex == "xSerialMutex"

\* the mutexes setup() and SafeCounter() create
ExampleHandles == {xDataMutex, xSerialMutex, counterMutex}

RecursiveTask == "RecursiveTask"

loopTask == "loopTask"

\* the three tasks setup() creates and the task that runs loop()
ExampleTasks == {"Task1", "Task2", RecursiveTask, loopTask}

\* if (value >= 10) reset();
ResetAt == 10

\* pdMS_TO_TICKS(100) and pdMS_TO_TICKS(50): the finite timeouts of the
\* example, here the largest finite timeout of the model
ExampleTimeout == MaxTimeout

\* the first line of the task function of c
Entry(c) ==
    IF c = RecursiveTask THEN 55 ELSE IF c = loopTask THEN 146 ELSE 18

\* the mutexes created and free, the tasks at the top of their loops
InitExample ==
    /\ sem = [h \in ExampleHandles |->
                [count |-> 1, holder |-> NoTask, depth |-> 0]]
    /\ stack = [c \in ExampleTasks |-> << >>]
    /\ balance = [h \in ExampleHandles \cup {nullptr} |-> 0]
    /\ lastDtor = "-"
    /\ ret = NoReturn
    /\ SEMAPHORE_GUARD_DEBUG = FALSE
    /\ deleted = {}
    /\ pc = [c \in ExampleTasks |-> Entry(c)]
    /\ value = 0

\* task c goes on at line l
Goto(c, l) == pc' = [pc EXCEPT ![c] = l]

\* task c at line from constructs a guard of class k on h and goes on at to;
\* it gets there only when the constructor has returned
Declare(c, from, k, h, timeout, to) ==
    /\ pc[c] = from
    /\ Construct(k, c, h, timeout, NoFile)
    /\ Goto(c, to)

\* task c at line from leaves the scope of its innermost guard and goes on at to
EndScope(c, from, to) ==
    /\ pc[c] = from
    /\ GuardDtor(c)
    /\ Goto(c, to)

\* the constructor of the innermost guard of c has returned, and hasLock() is b
HasLockIs(c, b) ==
    /\ stack[c] # << >>
    /\ Top(c).pc = "live"
    /\ hasLock(Top(c)) = b

\* incrementTask: guard on xDataMutex, inside it serialGuard on xSerialMutex
incrementTask(c) ==
    /\ c \in {"Task1", "Task2"}
    /\ UNCHANGED value
    /\ \/ Declare(c, 18, "SemaphoreGuard", xDataMutex, portMAX_DELAY, 19)
       \/ /\ HasLockIs(c, TRUE)
          /\ Declare(c, 19, "SemaphoreGuard", xSerialMutex, portMAX_DELAY, 25)
       \/ HasLockIs(c, FALSE) /\ EndScope(c, 19, 18)
       \/ EndScope(c, 25, 31)
       \/ EndScope(c, 31, 18)

\* SafeCounter::increment: guard on the recursive mutex, value++, reset()
\* when value has reached 10
SafeCounter_increment(c) ==
    /\ pc[c] \in {55, 56, 63}
    /\ \/ /\ Declare(c, 55, "RecursiveSemaphoreGuard", counterMutex, portMAX_DELAY, 56)
          /\ UNCHANGED value
       \/ /\ pc[c] = 56
          /\ HasLockIs(c, TRUE)
          /\ value' = value + 1
          /\ Goto(c, IF value + 1 >= ResetAt THEN 66 ELSE 63)
          /\ lastDtor' = "-"
          /\ ret' = NoReturn
          /\ UNCHANGED <<sem, stack, balance, SEMAPHORE_GUARD_DEBUG, deleted>>
       \/ /\ HasLockIs(c, FALSE)
          /\ EndScope(c, 56, 101)
          /\ UNCHANGED value
       \/ /\ EndScope(c, 63, 101)
          /\ UNCHANGED value

\* SafeCounter::reset, called by increment: a second guard on the mutex
SafeCounter_reset(c) ==
    /\ pc[c] \in {66, 67, 71}
    /\ \/ /\ Declare(c, 66, "RecursiveSemaphoreGuard", counterMutex, portMAX_DELAY, 67)
          /\ UNCHANGED value
       \/ /\ pc[c] = 67
          /\ HasLockIs(c, TRUE)
          /\ value' = 0
          /\ Goto(c, 83)
          /\ lastDtor' = "-"
          /\ ret' = NoReturn
          /\ UNCHANGED <<sem, stack, balance, SEMAPHORE_GUARD_DEBUG, deleted>>
       \/ /\ HasLockIs(c, FALSE)
          /\ EndScope(c, 67, 63)
          /\ UNCHANGED value
       \/ /\ EndScope(c, 71, 63)
          /\ UNCHANGED value

\* SafeCounter::log, called by reset: a third guard on the mutex, inside it
\* serialGuard on xSerialMutex
SafeCounter_log(c) ==
    /\ UNCHANGED value
    /\ \/ Declare(c, 83, "RecursiveSemaphoreGuard", counterMutex, portMAX_DELAY, 84)
       \/ /\ HasLockIs(c, TRUE)
          /\ Declare(c, 84, "SemaphoreGuard", xSerialMutex, portMAX_DELAY, 86)
       \/ HasLockIs(c, FALSE) /\ EndScope(c, 84, 71)
       \/ EndScope(c, 86, 90)
       \/ EndScope(c, 90, 71)

\* SafeCounter::getValue, called by recursiveTask at line 103 and by loop at
\* line 152: a guard on the mutex for the time of the read
SafeCounter_getValue(c) ==
    /\ UNCHANGED value
    /\ EndScope(c, 74, IF c = RecursiveTask THEN 108 ELSE 155)

\* recursiveTask after safeCounter.increment(): guard on xSerialMutex with
\* a timeout, inside it safeCounter.getValue()
recursiveTask(c) ==
    /\ c = RecursiveTask
    /\ UNCHANGED value
    /\ \/ Declare(c, 101, "SemaphoreGuard", xSerialMutex, ExampleTimeout, 102)
       \/ /\ HasLockIs(c, TRUE)
          /\ Declare(c, 102, "RecursiveSemaphoreGuard", counterMutex, portMAX_DELAY, 74)
       \/ HasLockIs(c, FALSE) /\ EndScope(c, 102, 55)
       \/ EndScope(c, 108, 55)

\* loop(), when it reports: guard on xDataMutex with a timeout, inside it
\* serialGuard on xSerialMutex, inside it safeCounter.getValue()
loop(c) ==
    /\ c = loopTask
    /\ UNCHANGED value
    /\ \/ Declare(c, 146, "SemaphoreGuard", xDataMutex, ExampleTimeout, 147)
       \/ /\ HasLockIs(c, TRUE)
          /\ Declare(c, 147, "SemaphoreGuard", xSerialMutex, portMAX_DELAY, 149)
       \/ HasLockIs(c, FALSE) /\ EndScope(c, 147, 146)
       \/ /\ HasLockIs(c, TRUE)
          /\ Declare(c, 149, "RecursiveSemaphoreGuard", counterMutex, portMAX_DELAY, 74)
       \/ HasLockIs(c, FALSE) /\ EndScope(c, 149, 156)
       \/ EndScope(c, 155, 156)
       \/ EndScope(c, 156, 146)

----------------------------------------------------------------------------
(* Specifications *)

\* the guards alone: every take and give of a semaphore is a guard's
NextGuards ==
    \/ \E c \in Callers, h \in Handles \cup {nullptr} :
            \/ SemaphoreGuard_ctor(c, h)
            \/ RecursiveSemaphoreGuard_ctor(c, h)
            \/ \E timeout \in Timeouts :
                    \/ SemaphoreGuard_ctor_timeout(c, h, timeout)
                    \/ RecursiveSemaphoreGuard_ctor_timeout(c, h, timeout)
    \/ \E c \in Callers :
            \/ TakeSucceeds(c)
            \/ TakeTimesOut(c)
            \/ SemaphoreGuard_dtor(c)
            \/ RecursiveSemaphoreGuard_dtor(c)
    \/ Tick

\* the guards and the application's direct gives and takes
Next ==
    \/ NextGuards
    \/ \E c \in Tasks :
            \/ ExternalGive(c, binarySem)
            \/ ExternalTake(c, binarySem)

\* the application as the tests run it, from the freshly created semaphores
Spec == Init /\ [][Next]_vars

\* semaphores used through guards only, the binary one starting available
SpecGuards == InitGiven /\ [][NextGuards]_vars

\* the guards, and callers asking their innermost guard what it reports
NextAccessors ==
    \/ NextGuards
    \/ \E c \in Callers : Accessors(c)

\* the tasks of SpecGuards, calling the accessors as well
SpecAccessors == InitGiven /\ [][NextAccessors]_vars

\* the application of Spec, which deletes the binary semaphore as the
\* signaling test does and calls nothing on the deleted handle afterwards;
\* the guards in scope are destroyed all the same
NextLifetime ==
    \/ \E c \in Callers, h \in (Handles \ deleted) \cup {nullptr} :
            \/ SemaphoreGuard_ctor(c, h)
            \/ RecursiveSemaphoreGuard_ctor(c, h)
            \/ \E timeout \in Timeouts :
                    \/ SemaphoreGuard_ctor_timeout(c, h, timeout)
                    \/ RecursiveSemaphoreGuard_ctor_timeout(c, h, timeout)
    \/ \E c \in Callers :
            \/ TakeSucceeds(c)
            \/ TakeTimesOut(c)
            \/ SemaphoreGuard_dtor(c)
            \/ RecursiveSemaphoreGuard_dtor(c)
    \/ Tick
    \/ \E c \in Tasks :
            \/ binarySem \notin deleted /\ ExternalGive(c, binarySem)
            \/ binarySem \notin deleted /\ ExternalTake(c, binarySem)
            \/ vSemaphoreDelete(c, binarySem)

\* the tests with the deletion of the signaling test, from the freshly
\* created semaphores
SpecLifetime == Init /\ [][NextLifetime]_vars

\* the tasks of the example, the takes they are blocked in, and the tick
NextExample ==
    \/ \E c \in ExampleTasks :
            \/ incrementTask(c)
            \/ SafeCounter_increment(c)
            \/ SafeCounter_reset(c)
            \/ SafeCounter_log(c)
            \/ SafeCounter_getValue(c)
            \/ recursiveTask(c)
            \/ loop(c)
            \/ TakeSucceeds(c)
            \/ TakeTimesOut(c)
    \/ Tick

\* the example application, its tasks scheduled in any order
SpecExample == InitExample /\ [][NextExample]_vars

\* the constructors of the build with SEMAPHORE_GUARD_DEBUG
NextDebug ==
    \/ NextGuards
    \/ \E c \in Callers, h \in Handles \cup {nullptr} :
            \/ SemaphoreGuard_ctor_debug(c, h)
            \/ RecursiveSemaphoreGuard_ctor_debug(c, h)
            \/ \E timeout \in Timeouts :
                    \/ SemaphoreGuard_ctor_timeout_debug(c, h, timeout)
                    \/ RecursiveSemaphoreGuard_ctor_timeout_debug(c, h, timeout)

\* the tasks of SpecGuards in either build, the guards constructed through
\* the SEMAPHORE_GUARD macros: without file and line in the build without
\* SEMAPHORE_GUARD_DEBUG, with them in the build with it
SpecDebug == InitBuilds /\ [][NextDebug]_vars

\* fair scheduling: the tick interrupt keeps firing, and a task whose take can
\* return (the semaphore is available, or its timeout has expired) is
\* eventually run and returns from it
Fairness ==
    /\ WF_vars(Tick)
    /\ \A c \in Tasks : WF_vars(TakeSucceeds(c) \/ TakeTimesOut(c))

\* the tasks of SpecGuards under fair scheduling
SpecFair == InitGiven /\ [][NextGuards]_vars /\ Fairness

----------------------------------------------------------------------------
(* Vocabulary of the properties *)

\* the guards that exist, each named by its caller and its place in the stack
GuardIds == {id \in Callers \X (1..MaxGuards) : id[2] <= Len(stack[id[1]])}

\* the guard named id
GuardAt(id) == stack[id[1]][id[2]]

\* the guards whose construction has returned
LiveIds == {id \in GuardIds : GuardAt(id).pc = "live"}

\* the live guards on handle h that report hasLock()
Holders(h) == {id \in LiveIds : GuardAt(id).m_handle = h /\ hasLock(GuardAt(id))}

\* the live guards on handle h whose take failed
Failed(h) ==
    {id \in LiveIds : GuardAt(id).m_handle = h /\ GuardAt(id).nTake = 1
                        /\ ~hasLock(GuardAt(id))}

\* caller c is inside the critical section of h: it owns a live guard with hasLock()
InCS(c, h) == \E id \in Holders(h) : id[1] = c

\* this step constructs a guard of caller c
Pushed(c) == Len(stack'[c]) = Len(stack[c]) + 1

\* this step destroys the innermost guard of caller c
Popped(c) == Len(stack'[c]) = Len(stack[c]) - 1

\* in this step the construction of the innermost guard of c returns
Completes(c) ==
    IF Pushed(c) THEN Top(c)'.pc = "live"
    ELSE /\ stack[c] # << >>
         /\ Len(stack'[c]) = Len(stack[c])
         /\ Top(c).pc = "blocked"
         /\ Top(c)'.pc = "live"

\* this step leaves the semaphores as they are and makes no guard take or give
LocksUntouched == sem' = sem /\ balance' = balance

\* the life-cycle state of a guard that exists
StateOf(e) ==
    IF e.pc = "blocked" THEN "Unacquired"
    ELSE IF hasLock(e) THEN "Acquired" ELSE "Released"

----------------------------------------------------------------------------
(* C1 *)

C1_DtorStep ==
    \A c \in Callers :
        Popped(c) =>
            IF hasLock(Top(c))
            THEN balance' = [balance EXCEPT ![Top(c).m_handle] = @ - 1]
            ELSE balance' = balance

\* C1: destroying a guard issues exactly one kernel release on its handle if
\* its hasLock() is true and none if it is false; so on every handle the
\* releases issued by guards never exceed the guards' successful acquisitions.
C1_ReleaseOnlyWhatWasAcquired ==
    /\ [](\A h \in Handles \cup {nullptr} : balance[h] >= 0)
    /\ [][C1_DtorStep]_vars

\* a guard that held a semaphore has just been destroyed while a guard whose
\* take failed still exists
C1_Witness == lastDtor = "released" /\ \E h \in Handles : Failed(h) # {}

----------------------------------------------------------------------------
(* C2 *)

C2_CtorStep ==
    \A c \in Tasks :
        (/\ Pushed(c)
         /\ Top(c)'.m_handle # nullptr
         /\ Available(sem, Top(c)'.m_handle, c))
        => (Top(c)'.pc = "live" /\ hasLock(Top(c)'))

C2_DtorStep ==
    \A c \in Callers :
        (Popped(c) /\ hasLock(Top(c))) =>
            LET h == Top(c).m_handle IN
            /\ Available(sem', h, c)
            /\ (\A i \in 1..Len(stack'[c]) :
                    ~(stack'[c][i].m_handle = h /\ hasLock(stack'[c][i])))
               => \A t \in Tasks : Available(sem', h, t)

\* C2: a guard constructed from task context on a non-null handle whose lock
\* is available has hasLock() true when construction returns, and it returns
\* at once; after the guard is destroyed an immediate take succeeds: for its
\* own task always, and for every task once the task holds no further guard
\* on that handle.
C2_AcquireThenAvailableAgain == [][C2_CtorStep /\ C2_DtorStep]_vars

\* a guard has just given the binary semaphore back and no guard holds it
C2_Witness ==
    /\ lastDtor = "released"
    /\ balance = [h \in Handles \cup {nullptr} |-> 0]
    /\ sem[binarySem].count = 1

----------------------------------------------------------------------------
(* C3 *)

C3_CtorStep ==
    \A c \in Callers :
        (/\ Completes(c)
         /\ Top(c)'.nTake = 1
         /\ ~Available(sem, Top(c)'.m_handle, c))
        => (~hasLock(Top(c)') /\ LocksUntouched)

C3_DtorStep ==
    \A c \in Callers : (Popped(c) /\ ~hasLock(Top(c))) => LocksUntouched

\* C3: a construction with a finite timeout that returns while the lock is
\* still held elsewhere leaves hasLock() false, and neither that construction
\* nor the destruction of the guard changes the lock or issues a release.
C3_TimeoutLeavesLockAlone == [][C3_CtorStep /\ C3_DtorStep]_vars

\* a guard whose take on the binary semaphore failed has just been destroyed,
\* and the guard of another task that holds the semaphore still holds it
C3_Witness ==
    /\ lastDtor = "dropped"
    /\ Holders(binarySem) # {}
    /\ sem[binarySem].count = 0
    /\ sem[countingSem].count = CountingMax
    /\ sem[recursiveMutex].holder = NoTask

----------------------------------------------------------------------------
(* C4 *)

C4_State ==
    /\ balance[nullptr] = 0
    /\ \A id \in GuardIds :
            GuardAt(id).m_handle = nullptr =>
                /\ ~hasLock(GuardAt(id))
                /\ ~isValid(GuardAt(id))
                /\ GuardAt(id).pc = "live"
                /\ GuardAt(id).nTake = 0

C4_Step ==
    \A c \in Callers :
        /\ (Pushed(c) /\ Top(c)'.m_handle = nullptr) => LocksUntouched
        /\ (Popped(c) /\ Top(c).m_handle = nullptr) => LocksUntouched

\* C4: a guard of either class constructed with a null handle, whatever the
\* timeout, has hasLock() false and isValid() false; its construction returns
\* without blocking and without a kernel take, and its destruction makes no
\* kernel give.
C4_NullHandleIsInert == []C4_State /\ [][C4_Step]_vars

\* a task owns a null-handle guard of each class, and a null-handle guard has
\* just been destroyed
C4_Witness ==
    /\ lastDtor = "discarded"
    /\ \E c \in Tasks :
        /\ \E i \in 1..Len(stack[c]) :
                stack[c][i].m_handle = nullptr /\ stack[c][i].cls = "SemaphoreGuard"
        /\ \E i \in 1..Len(stack[c]) :
                stack[c][i].m_handle = nullptr /\ stack[c][i].cls = "RecursiveSemaphoreGuard"

----------------------------------------------------------------------------
(* C5 *)

C5_State ==
    \A i \in 1..Len(stack[ISR]) :
        /\ ~hasLock(stack[ISR][i])
        /\ stack[ISR][i].pc = "live"
        /\ stack[ISR][i].nTake = 0

C5_Step == (Pushed(ISR) \/ Popped(ISR)) => LocksUntouched

\* C5: a guard of either class constructed in interrupt context, whatever the
\* lock's state and the timeout, makes no kernel take and does not block; its
\* hasLock() is false even if the lock was available, the lock is unchanged,
\* and destroying the guard issues no release.
C5_InterruptContextRefused == []C5_State /\ [][C5_Step]_vars

\* the interrupt handler owns a guard of each class on a lock that is available
C5_Witness ==
    /\ sem[countingSem].count > 0
    /\ sem[recursiveMutex].count > 0
    /\ \E i \in 1..Len(stack[ISR]) :
            stack[ISR][i].m_handle = countingSem /\ stack[ISR][i].cls = "SemaphoreGuard"
    /\ \E i \in 1..Len(stack[ISR]) :
            /\ stack[ISR][i].m_handle = recursiveMutex
            /\ stack[ISR][i].cls = "RecursiveSemaphoreGuard"

----------------------------------------------------------------------------
(* C6 *)

\* C6: when the locks are taken and given through guards only, at most one
\* task is inside the critical section of the binary lock, and all live
\* guards with hasLock() true on the recursive lock belong to one task.
C6_MutualExclusion ==
    /\ Cardinality({c \in Callers : InCS(c, binarySem)}) <= 1
    /\ Cardinality({c \in Callers : InCS(c, recursiveMutex)}) <= 1

\* one task is inside the critical sections of the binary and of the recursive
\* lock, while the other task's guard on the binary lock has failed
C6_Witness ==
    \E c \in Tasks :
        /\ InCS(c, binarySem)
        /\ InCS(c, recursiveMutex)
        /\ \E id \in Failed(binarySem) : id[1] \in Tasks \ {c}

----------------------------------------------------------------------------
(* C7 *)

C7_State ==
    \A c \in Callers :
        InCS(c, recursiveMutex) =>
            \A t \in Callers \ {c} : ~Available(sem, recursiveMutex, t)

C7_Step ==
    \A c \in Tasks :
        (/\ Pushed(c)
         /\ Top(c)'.cls = "RecursiveSemaphoreGuard"
         /\ Top(c)'.m_handle = recursiveMutex
         /\ InCS(c, recursiveMutex))
        => (Top(c)'.pc = "live" /\ hasLock(Top(c)'))

\* C7: a task that holds the recursive lock through a live guard constructs a
\* nested RecursiveSemaphoreGuard on it without blocking and with hasLock()
\* true; the lock is available to no other task while any of the task's
\* guards with hasLock() true on it is live.
C7_RecursiveReentrancy == []C7_State /\ [][C7_Step]_vars

\* the inner of two nested guards has just been destroyed, the outer one still
\* holds the lock, and the other task is still blocked on it
C7_Witness ==
    /\ lastDtor = "released"
    /\ sem[recursiveMutex].depth = 1
    /\ \E c \in Tasks :
        /\ InCS(c, recursiveMutex)
        /\ \E t \in Tasks \ {c} : stack[t] # << >> /\ Top(t).pc = "blocked"
                                   /\ Top(t).m_handle = recursiveMutex

----------------------------------------------------------------------------
(* C8 *)

\* the guards on the counting semaphore, constructed or under construction
CountingGuards == {id \in GuardIds : GuardAt(id).m_handle = countingSem}

C8_State ==
    /\ Cardinality(Holders(countingSem)) <= CountingMax
    /\ CountingGuards = {} => sem[countingSem].count = CountingMax

C8_Step ==
    \A c \in Tasks :
        /\ (/\ Pushed(c)
            /\ Top(c)'.m_handle = countingSem
            /\ Cardinality(Holders(countingSem)) < CountingMax)
           => (Top(c)'.pc = "live" /\ hasLock(Top(c)'))
        /\ (/\ Completes(c)
            /\ Top(c)'.m_handle = countingSem
            /\ Cardinality(Holders(countingSem)) = CountingMax)
           => ~hasLock(Top(c)')

\* C8: on the counting semaphore of capacity N, a guard constructed while
\* fewer than N guards hold a unit gets hasLock() true at once, so N guards
\* hold it together; a construction that returns while N guards hold it gets
\* hasLock() false; and once no guard on it is left the count is N again.
C8_CountingCapacity == []C8_State /\ [][C8_Step]_vars

\* one task owns N guards holding the counting semaphore and, inside them, a
\* guard on it whose take failed
C8_Witness ==
    \E c \in Tasks :
        /\ Len(stack[c]) = CountingMax + 1
        /\ \A i \in 1..CountingMax :
                /\ stack[c][i].m_handle = countingSem
                /\ stack[c][i].pc = "live"
                /\ hasLock(stack[c][i])
        /\ Top(c).m_handle = countingSem
        /\ Top(c).pc = "live"
        /\ Top(c).nTake = 1
        /\ ~hasLock(Top(c))

----------------------------------------------------------------------------
(* C9 *)

C9_Step ==
    /\ \A c \in Callers :
        /\ (/\ Completes(c)
            /\ Top(c)'.m_handle = binarySem
            /\ Top(c)'.nTake = 1
            /\ sem[binarySem].count = 0)
           => ~hasLock(Top(c)')
        /\ (/\ Pushed(c)
            /\ c \in Tasks
            /\ Top(c)'.m_handle = binarySem
            /\ sem[binarySem].count > 0)
           => /\ Top(c)'.pc = "live"
              /\ hasLock(Top(c)')
              /\ \A id \in GuardIds : GuardAt(id)' = GuardAt(id)
    /\ (sem'[binarySem].count > sem[binarySem].count /\ balance' = balance)
       => stack' = stack

\* C9: a construction on the binary semaphore that returns while it is empty
\* leaves hasLock() false; a guard constructed by a task once the semaphore
\* has been given gets hasLock() true; neither the give nor that construction
\* changes an earlier guard, which still reports hasLock() false.
C9_SignalingPattern == [][C9_Step]_vars

\* the state the signaling test ends in: the guard constructed before the give
\* reports false, the guard constructed after it holds the semaphore
C9_Witness ==
    \E c \in Tasks :
        /\ Len(stack[c]) = 2
        /\ stack[c][1].m_handle = binarySem /\ stack[c][1].pc = "live"
        /\ stack[c][1].nTake = 1 /\ ~hasLock(stack[c][1])
        /\ stack[c][2].m_handle = binarySem /\ stack[c][2].pc = "live"
        /\ hasLock(stack[c][2])
        /\ \A t \in Callers \ {c} : stack[t] = << >>

----------------------------------------------------------------------------
(* C10 *)

C10_Step ==
    \A c \in Callers :
        /\ Popped(c) => Top(c).pc = "live"
        /\ \A i \in 1..Len(stack[c]) :
            i <= Len(stack'[c]) =>
                /\ stack'[c][i].cls = stack[c][i].cls
                /\ stack'[c][i].m_handle = stack[c][i].m_handle
                /\ \/ StateOf(stack[c][i])' = StateOf(stack[c][i])
                   \/ /\ StateOf(stack[c][i]) = "Unacquired"
                      /\ StateOf(stack[c][i])' \in {"Acquired", "Released"}

\* C10: a guard goes Unacquired -> Acquired or Unacquired -> Released when its
\* construction returns and is destroyed only after that; while it exists it
\* never leaves Acquired or Released, so a guard whose construction failed
\* never becomes Acquired and hasLock() never changes after construction,
\* whatever other tasks and direct gives and takes do to the lock.
C10_LifeCycle == [][C10_Step]_vars

\* a guard whose take on the binary semaphore failed still exists and still
\* reports false although the semaphore is available now, next to a guard
\* that holds a lock
C10_Witness ==
    /\ Failed(binarySem) # {}
    /\ sem[binarySem].count = 1
    /\ \E h \in Handles : Holders(h) # {}

----------------------------------------------------------------------------
(* C11 *)

\* C11: for every guard that exists, the acquired flag is true exactly when
\* the kernel take this guard made has returned pdTRUE; the guard gives the
\* unit back only in its destructor, at the end of its life, so a guard whose
\* flag is true has not yet released, and a guard that has released is gone.
C11_AcquiredFlagInvariant ==
    /\ \A id \in GuardIds : hasLock(GuardAt(id)) <=> GuardAt(id).xReturn = "pdTRUE"
    /\ \A h \in Handles \cup {nullptr} :
            balance[h] = Cardinality({id \in GuardIds :
                            GuardAt(id).m_handle = h /\ GuardAt(id).xReturn = "pdTRUE"})

\* a guard whose take returned pdTRUE, a guard whose take returned pdFALSE
\* and a guard that made no take exist together
C11_Witness ==
    /\ \E id \in GuardIds : GuardAt(id).xReturn = "pdTRUE" /\ GuardAt(id).m_handle = binarySem
    /\ \E id \in GuardIds : GuardAt(id).xReturn = "pdFALSE" /\ GuardAt(id).pc = "live"
    /\ \E id \in GuardIds : GuardAt(id).nTake = 0

----------------------------------------------------------------------------
(* C12 *)

\* caller c is inside the take of an unbounded-wait constructor
UnboundedBlocked(c) ==
    /\ stack[c] # << >>
    /\ Top(c).pc = "blocked"
    /\ Top(c).ticksLeft = portMAX_DELAY

C12_CtorStep ==
    \A c \in Tasks :
        (Pushed(c) /\ Top(c)'.m_handle # nullptr) =>
            LET h == Top(c)'.m_handle IN
            (SemaphoreGuard_ctor(c, h) \/ RecursiveSemaphoreGuard_ctor(c, h)) =>
                IF Available(sem, h, c)
                THEN Top(c)'.pc = "live" /\ hasLock(Top(c)')
                ELSE UnboundedBlocked(c)'

C12_ReturnStep ==
    \A c \in Tasks :
        UnboundedBlocked(c) =>
            /\ ~Available(sem, Top(c).m_handle, c) => UnboundedBlocked(c)'
            /\ ~UnboundedBlocked(c)' =>
                    /\ Len(stack'[c]) = Len(stack[c])
                    /\ Top(c)'.pc = "live"
                    /\ hasLock(Top(c)')

\* C12: the unbounded-wait constructor called from a task on a non-null handle
\* returns at once with hasLock() true when the lock is available and blocks
\* the task otherwise; it stays blocked while the lock is unavailable, and
\* when it returns hasLock() is true.  Under fair scheduling a construction
\* that is blocked while the lock is available eventually returns, unless
\* another taker makes the lock unavailable again first.
C12_UnboundedConstruction ==
    /\ [][C12_CtorStep /\ C12_ReturnStep]_vars
    /\ \A c \in Tasks :
            (UnboundedBlocked(c) /\ Available(sem, Top(c).m_handle, c))
            ~> (~UnboundedBlocked(c) \/ ~Available(sem, Top(c).m_handle, c))

\* a task is blocked in the unbounded-wait constructor and the guard of the
\* other task has just released the lock it waits for
C12_Witness ==
    /\ lastDtor = "released"
    /\ \E c \in Tasks :
            UnboundedBlocked(c) /\ Available(sem, Top(c).m_handle, c)

----------------------------------------------------------------------------
(* C13 *)

\* caller c is inside the take of a constructor given a finite timeout
BoundedBlocked(c) ==
    /\ stack[c] # << >>
    /\ Top(c).pc = "blocked"
    /\ Top(c).ticksLeft \in 0..MaxTimeout

C13_CtorStep ==
    \A c \in Tasks :
        (Pushed(c) /\ Top(c)'.m_handle # nullptr) =>
            LET h == Top(c)'.m_handle IN
            \A timeout \in Timeouts :
                (\/ SemaphoreGuard_ctor_timeout(c, h, timeout)
                 \/ RecursiveSemaphoreGuard_ctor_timeout(c, h, timeout))
                => IF Top(c)'.pc = "live"
                   THEN hasLock(Top(c)') <=> Available(sem, h, c)
                   ELSE /\ timeout > 0
                        /\ BoundedBlocked(c)'
                        /\ Top(c)'.ticksLeft = timeout

C13_WaitStep ==
    \A c \in Tasks :
        BoundedBlocked(c) =>
            IF BoundedBlocked(c)'
            THEN /\ Top(c)'.ticksLeft <= Top(c).ticksLeft
                 /\ (Tick /\ Top(c).ticksLeft > 0)
                        => Top(c)'.ticksLeft = Top(c).ticksLeft - 1
            ELSE /\ Len(stack'[c]) = Len(stack[c])
                 /\ Top(c)'.pc = "live"
                 /\ hasLock(Top(c)') <=> Available(sem, Top(c).m_handle, c)
                 /\ hasLock(Top(c)') <=>
                        balance'[Top(c).m_handle] = balance[Top(c).m_handle] + 1
                 /\ ~hasLock(Top(c)') => (Top(c).ticksLeft = 0 /\ LocksUntouched)

\* C13: a constructor given a finite timeout either returns at once or blocks
\* with that timeout left; every tick takes one tick off the wait, so the
\* wait lasts at most the timeout; when the construction returns, hasLock()
\* is true exactly if the take got the lock, and false only once the ticks
\* have elapsed; and under fair scheduling every such construction returns,
\* whether or not the lock ever becomes available.
C13_BoundedConstructionTerminates ==
    /\ [][C13_CtorStep /\ C13_WaitStep]_vars
    /\ \A c \in Tasks : BoundedBlocked(c) ~> ~BoundedBlocked(c)

\* the timeout of a task's construction has expired on a lock that will never
\* be available: its holder is blocked for ever behind its own guard
C13_Witness ==
    \E c \in Tasks, t \in Tasks :
        /\ BoundedBlocked(c)
        /\ Top(c).ticksLeft = 0
        /\ Top(c).m_handle = binarySem
        /\ InCS(t, binarySem)
        /\ UnboundedBlocked(t)
        /\ Top(t).m_handle = binarySem

----------------------------------------------------------------------------
(* C14 *)

\* C14: whenever a caller's innermost guard has been constructed, of either
\* class and whether it holds the lock or not, its destructor can run to
\* completion at once, whatever the state of the lock (even a semaphore that
\* is full again after a direct give) and of the other tasks.
C14_DestructionNeverBlocks ==
    \A c \in Callers :
        (stack[c] # << >> /\ Top(c).pc = "live")
        => ENABLED (SemaphoreGuard_dtor(c) \/ RecursiveSemaphoreGuard_dtor(c))

\* a task's innermost guard holds the binary semaphore, which a direct give
\* has filled again, so that the destructor's give finds the queue full,
\* while the other task is blocked on the recursive mutex
C14_Witness ==
    \E c \in Tasks, t \in Tasks :
        /\ stack[c] # << >>
        /\ Top(c).pc = "live"
        /\ Top(c).m_handle = binarySem
        /\ hasLock(Top(c))
        /\ sem[binarySem].count = uxLength(binarySem)
        /\ UnboundedBlocked(t)
        /\ Top(t).m_handle = recursiveMutex

----------------------------------------------------------------------------
(* C15 *)

\* guard e of caller c failed: by null handle, by interrupt context, by timeout
FailedBy(c, e) ==
    IF e.m_handle = nullptr THEN "null"
    ELSE IF xPortInIsrContext(c) THEN "isr"
    ELSE IF e.pc = "live" /\ e.xReturn = "pdFALSE" THEN "timeout"
    ELSE "-"

C15_State ==
    \A c \in Callers :
        \A i \in 1..Len(stack[c]) :
            LET e == stack[c][i] IN
            /\ e.nTake = IF e.m_handle # nullptr /\ c \in Tasks THEN 1 ELSE 0
            /\ FailedBy(c, e) # "-" => (e.pc = "live" /\ ~hasLock(e))

C15_Step ==
    \A c \in Callers :
        /\ \A i \in 1..Len(stack[c]) :
                i <= Len(stack'[c]) => stack'[c][i].nTake = stack[c][i].nTake
        /\ (Completes(c) /\ FailedBy(c, Top(c)') # "-") => LocksUntouched

\* C15: a construction that fails, by null handle, by interrupt context or by
\* timeout, leaves a constructed guard whose hasLock() is false and changes
\* nothing else; and no constructor retries: a guard has made exactly one
\* kernel take if its handle is non-null and its caller a task, none
\* otherwise, and that number never changes while the guard exists.
C15_FailurePolicy == []C15_State /\ [][C15_Step]_vars

\* three failed guards exist together, one for each kind of failure
C15_Witness ==
    \A kind \in {"null", "isr", "timeout"} :
        \E id \in GuardIds : FailedBy(id[1], GuardAt(id)) = kind

----------------------------------------------------------------------------
(* C16 *)

C16_State ==
    \A c \in Callers :
        \A i \in 1..Len(stack[c]) :
            isValid(stack[c][i]) <=> getHandle(stack[c][i]) # nullptr

C16_CtorStep ==
    \A c \in Callers :
        Pushed(c) =>
            LET e == Top(c)'
                timeout == IF e.pc = "blocked" THEN e.ticksLeft ELSE 0
            IN  \A h \in Handles \cup {nullptr} :
                    GuardCtor(e.cls, c, h, timeout)
                    => /\ getHandle(e) = h
                       /\ isValid(e) <=> h # nullptr

C16_KeepStep ==
    \A c \in Callers :
        \A i \in 1..Len(stack[c]) :
            i <= Len(stack'[c]) =>
                /\ getHandle(stack'[c][i]) = getHandle(stack[c][i])
                /\ isValid(stack'[c][i]) = isValid(stack[c][i])

C16_CallStep ==
    ret'.caller # "-" =>
        /\ UNCHANGED <<sem, stack, balance>>
        /\ LET e == Top(ret'.caller) IN
           /\ ret'.hasLock = (e.xReturn = "pdTRUE")
           /\ ret'.isValid = (e.m_handle # nullptr)
           /\ ret'.getHandle = e.m_handle

\* C16: for every guard, getHandle() is the handle its constructor was given
\* and isValid() is true exactly if that handle is non-null, from the moment
\* the constructor is entered and unchanged by whatever happens to the guard
\* afterwards (acquired, timed out, or refused in interrupt context); and a
\* call of hasLock(), isValid() or getHandle() returns that value and changes
\* neither the guards nor the locks.
C16_Accessors ==
    /\ []C16_State
    /\ [][C16_CtorStep /\ C16_KeepStep /\ C16_CallStep]_vars

\* isValid() has just returned true and getHandle() the binary semaphore for
\* a guard whose take timed out, while a
\* guard refused in interrupt context on a non-null handle and a guard that
\* holds a lock exist
C16_Witness ==
    /\ ret.caller # "-"
    /\ ret.isValid
    /\ ret.getHandle = binarySem
    /\ FailedBy(ret.caller, Top(ret.caller)) = "timeout"
    /\ \E i \in 1..Len(stack[ISR]) : stack[ISR][i].m_handle # nullptr
    /\ \E h \in Handles : Holders(h) # {}

----------------------------------------------------------------------------
(* C17 *)

\* task c waits without bound for the binary semaphore that an outer
\* SemaphoreGuard of its own holds
SelfBlocked(c) ==
    /\ UnboundedBlocked(c)
    /\ Top(c).cls = "SemaphoreGuard"
    /\ Top(c).m_handle = binarySem
    /\ InCS(c, binarySem)

C17_UnboundedStep ==
    \A c \in Tasks :
        /\ (InCS(c, binarySem) /\ SemaphoreGuard_ctor(c, binarySem))
           => SelfBlocked(c)'
        /\ SelfBlocked(c) => (SelfBlocked(c)' /\ stack'[c] = stack[c])

C17_BoundedStep ==
    \A c \in Tasks :
        (/\ InCS(c, binarySem)
         /\ Completes(c)
         /\ Top(c)'.cls = "SemaphoreGuard"
         /\ Top(c)'.m_handle = binarySem)
        => /\ ~hasLock(Top(c)')
           /\ InCS(c, binarySem)'
           /\ LocksUntouched

\* C17: with the binary semaphore taken and given through guards only, a
\* task that holds it through a live SemaphoreGuard and constructs a second
\* SemaphoreGuard on it with unbounded wait blocks, and stays blocked in
\* every later step, its guards as they are; with a finite timeout the
\* second construction returns with hasLock() false, the first guard still
\* holding the semaphore.
C17_BinarySelfDeadlock == [][C17_UnboundedStep /\ C17_BoundedStep]_vars

\* a task is blocked behind its own guard, and the other task's bounded
\* construction on the same semaphore has timed out
C17_Witness ==
    \E c \in Tasks :
        /\ SelfBlocked(c)
        /\ \E id \in Failed(binarySem) : id[1] \in Tasks \ {c}

----------------------------------------------------------------------------
(* C18 *)

\* the claim as stated: while a guard on the binary semaphore reports
\* hasLock() true the unit it took is still out, and no second guard on it
\* reports hasLock() true, direct kernel calls on the handle included
C18_FlagMeansHeld ==
    \A c \in Callers :
        \A i \in 1..Len(stack[c]) :
            (/\ stack[c][i].pc = "live"
             /\ stack[c][i].m_handle = binarySem
             /\ hasLock(stack[c][i]))
            => /\ sem[binarySem].count = 0
               /\ \A t \in Callers :
                    \A j \in 1..Len(stack[t]) :
                        (/\ stack[t][j].pc = "live"
                         /\ stack[t][j].m_handle = binarySem
                         /\ hasLock(stack[t][j]))
                        => (t = c /\ j = i)

\* this step is a kernel give on the binary semaphore made outside any guard
DirectGive ==
    /\ sem'[binarySem].count > sem[binarySem].count
    /\ balance' = balance

C18_OwnRelease ==
    \A h \in Handles :
        Cardinality(Holders(h)) = balance[h]

\* C18 (amended): the acquired flag records that the instance took a unit
\* and has not itself given it back: on every handle the guards that report
\* hasLock() true are as many as the guards' takes not yet matched by a
\* guard's give.  It does not follow what direct kernel calls do: only a
\* direct give on the binary semaphore ends the state in which the holding
\* guard's unit is still out and no second guard reports hasLock() true;
\* every other step, direct takes included, keeps it.
C18_FlagRecordsOwnAcquisition ==
    /\ []C18_OwnRelease
    /\ [][(C18_FlagMeansHeld /\ ~DirectGive) => C18_FlagMeansHeld']_vars

\* after direct gives and takes a guard holds the binary semaphore, its unit
\* still out, and the guard of another task has failed to take it
C18_Witness ==
    /\ Holders(binarySem) # {}
    /\ sem[binarySem].count = 0
    /\ lastDtor = "-"
    /\ \E id \in Failed(binarySem) : \A hd \in Holders(binarySem) : hd[1] # id[1]

----------------------------------------------------------------------------
(* C19 *)

\* the units h had before any guard was constructed
Capacity(h) == SemInit(1)[h].count

\* C19: with the locks taken and given through guards only, in every
\* reachable state the free units of a semaphore plus the live guards on it
\* that report hasLock() true make up the units it had before any guard was
\* constructed; and the hold count of the recursive mutex is the number of
\* live RecursiveSemaphoreGuards with hasLock() true of the task that holds
\* it, the mutex being free, with hold count zero, exactly when there is none.
C19_Conservation ==
    /\ \A h \in PlainHandles :
            sem[h].count + Cardinality(Holders(h)) = Capacity(h)
    /\ LET m == sem[recursiveMutex] IN
       /\ m.depth = Cardinality(
            {id \in Holders(recursiveMutex) :
                id[1] = m.holder /\ GuardAt(id).cls = "RecursiveSemaphoreGuard"})
       /\ Holders(recursiveMutex) = {} <=> m.depth = 0
       /\ m.count = IF m.depth = 0 THEN Capacity(recursiveMutex) ELSE 0
       /\ \A id \in Holders(recursiveMutex) : id[1] = m.holder

\* two nested recursive guards of one task and a guard on the counting
\* semaphore hold their locks
C19_Witness ==
    /\ sem[recursiveMutex].depth = 2
    /\ sem[countingSem].count = CountingMax - 1
    /\ sem[binarySem].count = 1

----------------------------------------------------------------------------
(* C20 *)

\* the severities a construction may log when it fails by timeout alone
TimeoutLevels == {"D", "W"}

\* the statement with debug level alone for the timeout: a construction that
\* failed only because the timeout expired has logged nothing above debug
\* level, and nothing at all in the build without SEMAPHORE_GUARD_DEBUG; an
\* error has been logged only for a null handle or interrupt context
C20_DebugLevelOnly ==
    \A c \in Callers :
        \A i \in 1..Len(stack[c]) :
            LET e == stack[c][i] IN
            /\ FailedBy(c, e) = "timeout" =>
                    /\ "E" \notin e.log
                    /\ e.log \subseteq {"D"}
                    /\ ~SEMAPHORE_GUARD_DEBUG => e.log = {}
            /\ "E" \in e.log => FailedBy(c, e) \in {"null", "isr"}

\* C20: a construction that failed only because the timeout expired (handle
\* not null, task context) has logged no error; what it has logged is of
\* debug or warn level, and nothing at all in the build without
\* SEMAPHORE_GUARD_DEBUG; a constructor has logged an error only for a null
\* handle or for interrupt context.
C20_TimeoutDiagnostics ==
    \A c \in Callers :
        \A i \in 1..Len(stack[c]) :
            LET e == stack[c][i] IN
            /\ FailedBy(c, e) = "timeout" =>
                    /\ "E" \notin e.log
                    /\ e.log \subseteq TimeoutLevels
                    /\ ~SEMAPHORE_GUARD_DEBUG => e.log = {}
            /\ "E" \in e.log => FailedBy(c, e) \in {"null", "isr"}

\* in the debug build a task's construction with a timeout has failed by
\* timeout alone and has logged the attempt and, as a warning, the failure
C20_Witness ==
    /\ SEMAPHORE_GUARD_DEBUG
    /\ \E c \in Tasks :
            \E i \in 1..Len(stack[c]) :
                /\ FailedBy(c, stack[c][i]) = "timeout"
                /\ stack[c][i].log = {"D", "W"}

----------------------------------------------------------------------------
(* C21 *)

\* in this step a constructor of caller c calls the kernel take, or the take
\* it is blocked in returns
TakeCall(c) ==
    \/ Pushed(c) /\ Top(c)'.nTake = 1
    \/ /\ stack[c] # << >>
       /\ Len(stack'[c]) = Len(stack[c])
       /\ Top(c).pc = "blocked"
       /\ Top(c)'.pc = "live"

\* in this step the destructor of a guard of caller c calls the kernel give
GiveCall(c) == Popped(c) /\ hasLock(Top(c))

C21_Step ==
    \A c \in Callers :
        /\ (Pushed(c) \/ Popped(c) \/ TakeCall(c)) => deleted' = deleted
        /\ TakeCall(c) => Top(c)'.m_handle \notin deleted
        /\ GiveCall(c) => Top(c).m_handle \notin deleted

\* C21: no step of a guard deletes a kernel object; every kernel call of a
\* guard, the take of its constructor and the give of its destructor, is
\* made on an object the application has not deleted: no guard with
\* hasLock() true is destroyed after its semaphore was deleted.
C21_HandleLifetime == [][C21_Step]_vars

----------------------------------------------------------------------------
(* C22 *)

\* task d owns a guard that holds h
HoldsLock(d, h) ==
    \E i \in 1..Len(stack[d]) :
        /\ stack[d][i].m_handle = h
        /\ stack[d][i].pc = "live"
        /\ hasLock(stack[d][i])

\* every task of T is blocked in an unbounded guard construction on a lock
\* that is not available to it and that another task of T holds
Deadlocked(T) ==
    /\ T # {}
    /\ \A c \in T :
            /\ UnboundedBlocked(c)
            /\ ~Available(sem, Top(c).m_handle, c)
            /\ \E d \in T \ {c} : HoldsLock(d, Top(c).m_handle)

\* C22: in no reachable state of the example application is there a set of
\* tasks each blocked in an unbounded guard construction, waiting for a lock
\* that another task of the set holds (such tasks wait forever; with no
\* such set every guard construction of the example can still return).
C22_DeadlockFreedom == \A T \in SUBSET ExampleTasks : ~Deadlocked(T)

============================================================================
